---------------------------- MODULE Spec2Model ----------------------------
(***************************************************************************)
(* Model of the affine_space library: the point and delta capabilities of  *)
(* affine_space.h (point_base, delta_base) and the free operators built on *)
(* them.                                                                   *)
(*                                                                         *)
(* Scalars are floating-point numbers.  The model uses a small binary      *)
(* floating-point format with the structure of IEEE-754 (a fixed number of *)
(* significand bits, gradual underflow, round-to-nearest-even, overflow to *)
(* infinity, NaN), so that rounding, overflow and NaN propagation are      *)
(* things the checks can observe.  A finite value is the integer number of *)
(* units it holds, one unit being 2^-Frac.  The two zeros of IEEE-754      *)
(* compare equal and are one value here.                                   *)
(***************************************************************************)
EXTENDS Integers, Sequences, FiniteSets, TLC

\* ------------------------------------------------------------------------
\* Bounds of the model
\* ------------------------------------------------------------------------
\* largest dimension (template parameter ndim) explored
MaxDim == 2
\* largest number of operator calls in one behaviour
MaxOps == 2
\* significand bits of the floating-point format
Precision == 4
\* fraction bits: the value 1.0 is 2^Frac units
Frac == 6
\* exponent of the last binade: finite values reach (2^Precision - 1) * 2^ExpMax
ExpMax == 0

\* ------------------------------------------------------------------------
\* Floating-point arithmetic (num_t, constrained by the concept numeric)
\* ------------------------------------------------------------------------
RECURSIVE Pow2(_)
Pow2(k) == IF k <= 0 THEN 1 ELSE 2 * Pow2(k - 1)

Abs(x) == IF x < 0 THEN -x ELSE x

One == Pow2(Frac)
MaxFinite == (Pow2(Precision) - 1) * Pow2(Frac + ExpMax)
PosInf == MaxFinite + 1
NegInf == -PosInf
NaN == MaxFinite + 2

\* spacing of the format around the magnitude num/den (in units)
RECURSIVE Ulp(_, _, _)
Ulp(num, den, u) ==
    IF num < den * u * Pow2(Precision) THEN u ELSE Ulp(num, den, 2 * u)

\* num/den rounded to the nearest integer, ties to even (num >= 0, den > 0)
RoundNearestEven(num, den) ==
    LET fl == num \div den
        rem == num % den
    IN  IF 2 * rem < den THEN fl
        ELSE IF 2 * rem > den THEN fl + 1
        ELSE IF fl % 2 = 0 THEN fl ELSE fl + 1

\* the magnitude num/den units rounded to the format (num >= 0, den > 0)
RoundMag(num, den) ==
    LET u == Ulp(num, den, 1)
        r == u * RoundNearestEven(num, den * u)
    IN  IF r > MaxFinite THEN PosInf ELSE r

IsNaN(x) == x = NaN
IsInf(x) == x = PosInf \/ x = NegInf
IsFinite(x) == x >= -MaxFinite /\ x <= MaxFinite
Sign(x) == IF x < 0 THEN -1 ELSE 1
Signed(s, m) == IF s < 0 THEN -m ELSE m

\* the finite values of the format
Representable(n) == Abs(n) <= MaxFinite /\ RoundMag(Abs(n), 1) = Abs(n)
Finite == {n \in -MaxFinite..MaxFinite : Representable(n)}
Float == Finite \cup {PosInf, NegInf, NaN}

FNeg(x) == IF IsNaN(x) THEN NaN ELSE -x

FAdd(x, y) ==
    IF IsNaN(x) \/ IsNaN(y) THEN NaN
    ELSE IF IsInf(x) /\ IsInf(y) THEN (IF x = y THEN x ELSE NaN)
    ELSE IF IsInf(x) THEN x
    ELSE IF IsInf(y) THEN y
    ELSE Signed(Sign(x + y), RoundMag(Abs(x + y), 1))

FSub(x, y) == FAdd(x, FNeg(y))

FMul(x, y) ==
    IF IsNaN(x) \/ IsNaN(y) THEN NaN
    ELSE IF IsInf(x) \/ IsInf(y)
         THEN (IF x = 0 \/ y = 0 THEN NaN ELSE Signed(Sign(x) * Sign(y), PosInf))
    ELSE Signed(Sign(x) * Sign(y), RoundMag(Abs(x) * Abs(y), One))

FDiv(x, y) ==
    IF IsNaN(x) \/ IsNaN(y) THEN NaN
    ELSE IF IsInf(x) THEN (IF IsInf(y) THEN NaN ELSE Signed(Sign(x) * Sign(y), PosInf))
    ELSE IF IsInf(y) THEN 0
    ELSE IF y = 0 THEN (IF x = 0 THEN NaN ELSE Signed(Sign(x), PosInf))
    ELSE Signed(Sign(x) * Sign(y), RoundMag(Abs(x) * One, Abs(y)))

\* ------------------------------------------------------------------------
\* Program state
\* ------------------------------------------------------------------------
\* ndim : the template parameter ndim of the space (fixed in a behaviour)
\* obj  : the storage (member `element`) of every live point and delta
\* call : the operator expression evaluated last: which operator, whether
\*        the expression is well-formed (an overload accepts the operands),
\*        the object a returned reference refers to, the point or delta
\*        returned (result), the number an accessor returns (value)
\* nops : number of operator expressions evaluated so far
VARIABLES ndim, obj, call, nops
vars == <<ndim, obj, call, nops>>

\* a client program with two points and two deltas of paired types; p and d
\* are mutable and stand as receiver or left operand, q and e are declared
\* const and stand as the other operand
PointNames == {"p", "q"}
DeltaNames == {"d", "e"}
Names == PointNames \cup DeltaNames
MutablePoints == {"p"}
MutableDeltas == {"d"}

vector_valued == ndim > 0
Index == 0..(ndim - 1)
\* size() returning one less than ndim
size_off_by_one == ndim - 1
size == ndim
\* element_type: std::array<num_t,ndim> when vector_valued, num_t otherwise
element_type == IF vector_valued THEN [Index -> Float] ELSE Float
\* value-initialised storage (delta_t del{})
ZeroElement == IF vector_valued THEN [i \in Index |-> 0] ELSE 0

\* the concept numeric / std::floating_point, over the argument types tried
ArgTypes == {"float", "double", "long double", "int"}
\* a constraint that admits every arithmetic type
any_arithmetic(t) == t \in ArgTypes
floating_point(t) == t \in {"float", "double", "long double"}
numeric(t) == floating_point(t)
\* std::convertible_to<double>: every arithmetic type converts to double
convertible_to_num_t(t) == t \in ArgTypes

\* a local variable of a function: the storage extended by one object
WithLocal(h, name, v) ==
    [k \in (DOMAIN h) \cup {name} |-> IF k = name THEN v ELSE h[k]]
\* the client's objects after a call has returned and its locals are gone
Globals(h) == [k \in Names |-> h[k]]

\* ------------------------------------------------------------------------
\* point_base: in-place arithmetic
\* ------------------------------------------------------------------------
RECURSIVE point_plus_eq_loop(_, _, _, _)
point_plus_eq_loop(h, this, d, i) ==
    IF i < ndim
    THEN point_plus_eq_loop([h EXCEPT ![this][i] = FAdd(h[this][i], h[d][i])],
                            this, d, i + 1)
    ELSE h

\* operator+= with a loop that starts at index 1
point_plus_eq_skips_first(h, this, d) ==
    IF vector_valued
    THEN point_plus_eq_loop(h, this, d, 1)
    ELSE [h EXCEPT ![this] = FSub(h[this], h[d])]

\* point_base::operator+=( const delta_type& d )
point_plus_eq(h, this, d) ==
    IF vector_valued
    THEN point_plus_eq_loop(h, this, d, 0)
    ELSE [h EXCEPT ![this] = FAdd(h[this], h[d])]

RECURSIVE point_minus_eq_loop(_, _, _, _)
point_minus_eq_loop(h, this, d, i) ==
    IF i < ndim
    THEN point_minus_eq_loop([h EXCEPT ![this][i] = FSub(h[this][i], h[d][i])],
                             this, d, i + 1)
    ELSE h

\* operator-= with the loop bound i+1<ndim: the last index is not written
RECURSIVE point_minus_eq_short_loop(_, _, _, _)
point_minus_eq_short_loop(h, this, d, i) ==
    IF i + 1 < ndim
    THEN point_minus_eq_short_loop([h EXCEPT ![this][i] = FSub(h[this][i], h[d][i])],
                                   this, d, i + 1)
    ELSE h

point_minus_eq_stops_early(h, this, d) ==
    IF vector_valued
    THEN point_minus_eq_short_loop(h, this, d, 0)
    ELSE [h EXCEPT ![this] = FSub(h[this], h[d])]

\* point_base::operator-=( const delta_type& d )
point_minus_eq(h, this, d) ==
    IF vector_valued
    THEN point_minus_eq_loop(h, this, d, 0)
    ELSE [h EXCEPT ![this] = FSub(h[this], h[d])]

\* for( std::size_t i=0; i<ndim; ++i ): the values the loop variable of
\* operator+= and operator-= takes, one iteration each, in order
RECURSIVE point_translate_loop_indices(_)
point_translate_loop_indices(i) ==
    IF i < ndim THEN <<i>> \o point_translate_loop_indices(i + 1) ELSE <<>>

\* ------------------------------------------------------------------------
\* delta_base: in-place arithmetic
\* ------------------------------------------------------------------------
RECURSIVE delta_plus_eq_loop(_, _, _, _)
delta_plus_eq_loop(h, this, d, i) ==
    IF i < ndim
    THEN delta_plus_eq_loop([h EXCEPT ![this][i] = FAdd(h[this][i], h[d][i])],
                            this, d, i + 1)
    ELSE h

\* operator+= adding d[0] at every index: with d the receiver itself, the
\* indices after the first read the element the call has overwritten
RECURSIVE delta_plus_eq_first_loop(_, _, _, _)
delta_plus_eq_first_loop(h, this, d, i) ==
    IF i < ndim
    THEN delta_plus_eq_first_loop([h EXCEPT ![this][i] = FAdd(h[this][i], h[d][0])],
                                  this, d, i + 1)
    ELSE h

delta_plus_eq_reads_first(h, this, d) ==
    IF vector_valued
    THEN delta_plus_eq_first_loop(h, this, d, 0)
    ELSE [h EXCEPT ![this] = FAdd(h[this], h[d])]

\* delta_base::operator+=( const delta_type& d )
delta_plus_eq(h, this, d) ==
    IF vector_valued
    THEN delta_plus_eq_loop(h, this, d, 0)
    ELSE [h EXCEPT ![this] = FAdd(h[this], h[d])]

RECURSIVE delta_minus_eq_loop(_, _, _, _)
delta_minus_eq_loop(h, this, d, i) ==
    IF i < ndim
    THEN delta_minus_eq_loop([h EXCEPT ![this][i] = FSub(h[this][i], h[d][i])],
                             this, d, i + 1)
    ELSE h

\* delta_base::operator-=( const delta_type& d )
delta_minus_eq(h, this, d) ==
    IF vector_valued
    THEN delta_minus_eq_loop(h, this, d, 0)
    ELSE [h EXCEPT ![this] = FSub(h[this], h[d])]

\* for( num_t& w : element ){ w*=a; }
RECURSIVE delta_times_eq_loop(_, _, _, _)
delta_times_eq_loop(h, this, a, i) ==
    IF i < ndim
    THEN delta_times_eq_loop([h EXCEPT ![this][i] = FMul(h[this][i], a)],
                             this, a, i + 1)
    ELSE h

\* delta_base::operator*=( const std::floating_point auto a ), a the value
delta_times_eq(h, this, a) ==
    IF vector_valued
    THEN delta_times_eq_loop(h, this, a, 0)
    ELSE [h EXCEPT ![this] = FMul(h[this], a)]

\* operator/= dividing element by element
delta_div_eq_per_element(h, this, a) ==
    IF vector_valued
    THEN [h EXCEPT ![this] = [i \in Index |-> FDiv(h[this][i], a)]]
    ELSE [h EXCEPT ![this] = FDiv(h[this], a)]

\* delta_base::operator/=( const std::floating_point auto a ):
\*    return static_cast<delta_type&>(*this)*=1/a;
delta_div_eq(h, this, a) == delta_times_eq(h, this, FDiv(One, a))

\* for( auto& x : result.element ){ x=-x; }
RECURSIVE delta_negate_loop(_, _, _)
delta_negate_loop(h, result, i) ==
    IF i < ndim
    THEN delta_negate_loop([h EXCEPT ![result][i] = FNeg(h[result][i])],
                           result, i + 1)
    ELSE h

\* operator-() negating the receiver itself and returning a copy of it
delta_negate_in_place(h, this) ==
    LET h1 == IF vector_valued
              THEN delta_negate_loop(h, this, 0)
              ELSE [h EXCEPT ![this] = FNeg(h[this])]
    IN  WithLocal(h1, "result", h1[this])

\* delta_base::operator-(): the storage when the function returns, the
\* returned delta being the local "result"
delta_negate(h, this) ==
    IF vector_valued
    THEN delta_negate_loop(WithLocal(h, "result", h[this]), "result", 0)
    ELSE WithLocal(h, "result", FNeg(h[this]))


\* ------------------------------------------------------------------------
\* Free operators.  Each yields the storage at its return statement: the
\* client's objects and the local that is returned ("del" or "result").
\* ------------------------------------------------------------------------
\* for( std::size_t i=0; i<ndim; ++i ){ del[i]=lhs[i]-rhs[i]; }
RECURSIVE point_minus_point_loop(_, _, _, _)
point_minus_point_loop(h, lhs, rhs, i) ==
    IF i < ndim
    THEN point_minus_point_loop(
             [h EXCEPT !["del"][i] = FSub(h[lhs][i], h[rhs][i])], lhs, rhs, i + 1)
    ELSE h

\* p-p with the operands exchanged
point_minus_point_swapped(h, lhs, rhs) ==
    IF vector_valued
    THEN point_minus_point_loop(WithLocal(h, "del", ZeroElement), rhs, lhs, 0)
    ELSE WithLocal(h, "del", FSub(h[rhs], h[lhs]))

\* d = p-p
point_minus_point(h, lhs, rhs) ==
    IF vector_valued
    THEN point_minus_point_loop(WithLocal(h, "del", ZeroElement), lhs, rhs, 0)
    ELSE WithLocal(h, "del", FSub(h[lhs], h[rhs]))

\* p+d with the sign of -= : the copy is translated backwards
point_plus_delta_subtracts(h, p, d) ==
    point_minus_eq(WithLocal(h, "result", h[p]), "result", d)

\* p+d translating its left operand instead of a copy of it
point_plus_delta_no_copy(h, p, d) ==
    LET h1 == point_plus_eq(h, p, d) IN WithLocal(h1, "result", h1[p])

\* p = p+d
point_plus_delta(h, p, d) == point_plus_eq(WithLocal(h, "result", h[p]), "result", d)

\* p-d with the sign of += : the copy is translated forwards
point_minus_delta_adds(h, p, d) == point_plus_eq(WithLocal(h, "result", h[p]), "result", d)

\* p = p-d
point_minus_delta(h, p, d) == point_minus_eq(WithLocal(h, "result", h[p]), "result", d)

\* d = d+d
delta_plus_delta(h, lhs, rhs) ==
    delta_plus_eq(WithLocal(h, "result", h[lhs]), "result", rhs)

\* d = d-d
delta_minus_delta(h, lhs, rhs) ==
    delta_minus_eq(WithLocal(h, "result", h[lhs]), "result", rhs)

\* d = a*d
scalar_times_delta(h, a, d) ==
    delta_times_eq(WithLocal(h, "result", h[d]), "result", a)

\* d*a returning a copy of d, the multiplication left out
delta_times_scalar_copies(h, d, a) == WithLocal(h, "result", h[d])

\* d = d*a:  return a*d;
delta_times_scalar(h, d, a) == scalar_times_delta(h, a, d)

\* d/a applying *= a to the copy
delta_div_scalar_multiplies(h, d, a) ==
    delta_times_eq(WithLocal(h, "result", h[d]), "result", a)

\* d = d/a
delta_div_scalar(h, d, a) ==
    delta_div_eq(WithLocal(h, "result", h[d]), "result", a)

\* ------------------------------------------------------------------------
\* The client program: objects as the tests brace-initialise them, and the
\* operator expressions it evaluates
\* ------------------------------------------------------------------------
\* the two coordinate values each object is built from
InitValues ==
    [p |-> <<One \div 4, 2 * One>>,
     q |-> <<-(4 * One), 7 * One>>,
     d |-> <<3 * One, 4 * One>>,
     e |-> <<-(3 * (One \div 2)), 12 * One>>]

\* storage of object k built from its two values, starting with value s
InitElement(k, s) ==
    IF vector_valued
    THEN [i \in Index |-> InitValues[k][((s + i) % 2) + 1]]
    ELSE InitValues[k][s + 1]

\* scalar operands tried, with the type of the argument expression
ScalarArgs ==
    {[type |-> "double", val |-> 5 * One],
     [type |-> "float",  val |-> 2 * One],
     [type |-> "double", val |-> 0],
     [type |-> "int",    val |-> 5 * One]}
NoArg == [type |-> "none", val |-> 0]

NoCall ==
    [op |-> "none", ok |-> TRUE, lhs |-> "-", rhs |-> "-", a |-> NoArg,
     ret |-> "-", result |-> ZeroElement, value |-> 0]

\* an expression whose operands no overload accepts: it does not compile,
\* nothing is evaluated
Rejected(op, lhs, rhs, a) ==
    /\ obj' = obj
    /\ call' = [op |-> op, ok |-> FALSE, lhs |-> lhs, rhs |-> rhs, a |-> a,
                ret |-> "-", result |-> ZeroElement, value |-> 0]

\* a member operator declared to return T instead of T&: the caller gets a
\* copy of the receiver
ReturnsCopyOfThis(op, h, this, rhs, a) ==
    /\ obj' = Globals(h)
    /\ call' = [op |-> op, ok |-> TRUE, lhs |-> this, rhs |-> rhs, a |-> a,
                ret |-> "prvalue", result |-> h[this], value |-> 0]

\* a member operator returning static_cast<T&>(*this): h is the storage at
\* the return statement
ReturnsThis(op, h, this, rhs, a) ==
    /\ obj' = Globals(h)
    /\ call' = [op |-> op, ok |-> TRUE, lhs |-> this, rhs |-> rhs, a |-> a,
                ret |-> this, result |-> h[this], value |-> 0]

\* an operator returning its local by value
ReturnsLocal(op, h, local, lhs, rhs, a) ==
    /\ obj' = Globals(h)
    /\ call' = [op |-> op, ok |-> TRUE, lhs |-> lhs, rhs |-> rhs, a |-> a,
                ret |-> "prvalue", result |-> h[local], value |-> 0]

Step == nops < MaxOps /\ nops' = nops + 1 /\ ndim' = ndim

\* x += y, x a point
PointPlusEq(x, y) ==
    Step /\ ReturnsThis("point+=", point_plus_eq(obj, x, y), x, y, NoArg)

\* x -= y, x a point
PointMinusEq(x, y) ==
    Step /\ ReturnsThis("point-=", point_minus_eq(obj, x, y), x, y, NoArg)

\* x += y, x a delta
DeltaPlusEq(x, y) ==
    Step /\ ReturnsThis("delta+=", delta_plus_eq(obj, x, y), x, y, NoArg)

\* x -= y, x a delta
DeltaMinusEq(x, y) ==
    Step /\ ReturnsThis("delta-=", delta_minus_eq(obj, x, y), x, y, NoArg)

\* the calls whose value is a point
PointValued(c) ==
    c.ok /\ c.op \in {"point+=", "point-=", "point+delta", "point-delta", "(point)-="}

\* (expr) -= y, expr the point expression evaluated last: the receiver is
\* the object the expression refers to, or the temporary it yields
ChainedPointMinusEq(y) ==
    /\ Step
    /\ PointValued(call)
    /\ LET this == IF call.ret \in Names THEN call.ret ELSE "prvalue"
           h == WithLocal(obj, "prvalue", call.result)
       IN  ReturnsThis("(point)-=", point_minus_eq(h, this, y), this, y, NoArg)

\* x *= a
DeltaTimesEq(x, a) ==
    /\ Step
    /\ IF floating_point(a.type)
       THEN ReturnsThis("delta*=", delta_times_eq(obj, x, a.val), x, "-", a)
       ELSE Rejected("delta*=", x, "-", a)

\* x /= a
DeltaDivEq(x, a) ==
    /\ Step
    /\ IF floating_point(a.type)
       THEN ReturnsThis("delta/=", delta_div_eq(obj, x, a.val), x, "-", a)
       ELSE Rejected("delta/=", x, "-", a)

\* -x
DeltaNegate(x) ==
    Step /\ ReturnsLocal("-delta", delta_negate(obj, x), "result", x, "-", NoArg)

\* l - r, both points
PointMinusPoint(l, r) ==
    Step /\ ReturnsLocal("point-point", point_minus_point(obj, l, r), "del", l, r, NoArg)

\* l + r, a point and a delta
PointPlusDelta(l, r) ==
    Step /\ ReturnsLocal("point+delta", point_plus_delta(obj, l, r), "result", l, r, NoArg)

\* l - r, a point and a delta
PointMinusDelta(l, r) ==
    Step /\ ReturnsLocal("point-delta", point_minus_delta(obj, l, r), "result", l, r, NoArg)

\* l + r, both deltas
DeltaPlusDelta(l, r) ==
    Step /\ ReturnsLocal("delta+delta", delta_plus_delta(obj, l, r), "result", l, r, NoArg)

\* l - r, both deltas
DeltaMinusDelta(l, r) ==
    Step /\ ReturnsLocal("delta-delta", delta_minus_delta(obj, l, r), "result", l, r, NoArg)

\* a * r
ScalarTimesDelta(a, r) ==
    /\ Step
    /\ IF floating_point(a.type)
       THEN ReturnsLocal("scalar*delta", scalar_times_delta(obj, a.val, r), "result", "-", r, a)
       ELSE Rejected("scalar*delta", "-", r, a)

\* l * a
DeltaTimesScalar(l, a) ==
    /\ Step
    /\ IF floating_point(a.type)
       THEN ReturnsLocal("delta*scalar", delta_times_scalar(obj, l, a.val), "result", l, "-", a)
       ELSE Rejected("delta*scalar", l, "-", a)

\* l / a
DeltaDivScalar(l, a) ==
    /\ Step
    /\ IF floating_point(a.type)
       THEN ReturnsLocal("delta/scalar", delta_div_scalar(obj, l, a.val), "result", l, "-", a)
       ELSE Rejected("delta/scalar", l, "-", a)

\* ------------------------------------------------------------------------
\* Overload resolution: which operator of the header, if any, accepts an
\* expression `l sym r`, by the kinds of its operands
\* ------------------------------------------------------------------------
OperatorSymbols == {"+", "-", "*", "/", "+=", "-=", "*=", "/="}

\* the scalar operand of the expressions tried: a double
ScalarOperand == "a"
OperandArg == [type |-> "double", val |-> 2 * One]

\* the kind of an operand: a type derived from point_base, a type derived
\* from delta_base, or an arithmetic type
Kind(x) ==
    IF x \in PointNames THEN "point"
    ELSE IF x \in DeltaNames THEN "delta"
    ELSE "scalar"

\* an operator+ template whose right parameter is not constrained to
\* delta_base: it accepts a point there too
Overload_unconstrained_plus(sym, lk, rk) ==
    CASE sym = "+=" /\ lk = "point" /\ rk = "delta" -> "point+="
      [] sym = "-=" /\ lk = "point" /\ rk = "delta" -> "point-="
      [] sym = "+=" /\ lk = "delta" /\ rk = "delta" -> "delta+="
      [] sym = "-=" /\ lk = "delta" /\ rk = "delta" -> "delta-="
      [] sym = "*=" /\ lk = "delta" /\ rk = "scalar" -> "delta*="
      [] sym = "/=" /\ lk = "delta" /\ rk = "scalar" -> "delta/="
      [] sym = "-" /\ lk = "point" /\ rk = "point" -> "point-point"
      [] sym = "+" /\ lk = "point" /\ rk \in {"point", "delta"} -> "point+delta"
      [] sym = "-" /\ lk = "point" /\ rk = "delta" -> "point-delta"
      [] sym = "+" /\ lk = "delta" /\ rk = "delta" -> "delta+delta"
      [] sym = "-" /\ lk = "delta" /\ rk = "delta" -> "delta-delta"
      [] sym = "*" /\ lk = "scalar" /\ rk = "delta" -> "scalar*delta"
      [] sym = "*" /\ lk = "delta" /\ rk = "scalar" -> "delta*scalar"
      [] sym = "/" /\ lk = "delta" /\ rk = "scalar" -> "delta/scalar"
      [] OTHER -> "none"

\* the member operators of point_base and delta_base and the free operator
\* templates: template argument deduction succeeds only for operands
\* derived from the named bases with the same point_t, delta_t
Overload(sym, lk, rk) ==
    CASE sym = "+=" /\ lk = "point" /\ rk = "delta" -> "point+="
      [] sym = "-=" /\ lk = "point" /\ rk = "delta" -> "point-="
      [] sym = "+=" /\ lk = "delta" /\ rk = "delta" -> "delta+="
      [] sym = "-=" /\ lk = "delta" /\ rk = "delta" -> "delta-="
      [] sym = "*=" /\ lk = "delta" /\ rk = "scalar" -> "delta*="
      [] sym = "/=" /\ lk = "delta" /\ rk = "scalar" -> "delta/="
      [] sym = "-" /\ lk = "point" /\ rk = "point" -> "point-point"
      [] sym = "+" /\ lk = "point" /\ rk = "delta" -> "point+delta"
      [] sym = "-" /\ lk = "point" /\ rk = "delta" -> "point-delta"
      [] sym = "+" /\ lk = "delta" /\ rk = "delta" -> "delta+delta"
      [] sym = "-" /\ lk = "delta" /\ rk = "delta" -> "delta-delta"
      [] sym = "*" /\ lk = "scalar" /\ rk = "delta" -> "scalar*delta"
      [] sym = "*" /\ lk = "delta" /\ rk = "scalar" -> "delta*scalar"
      [] sym = "/" /\ lk = "delta" /\ rk = "scalar" -> "delta/scalar"
      [] OTHER -> "none"

\* the name recorded for an operand: a scalar operand has none
OperandName(x) == IF Kind(x) = "scalar" THEN "-" ELSE x

\* the expression `l sym r`: the operator overload resolution selects is
\* evaluated; with no viable operator the expression does not compile
BinaryExpression(sym, l, r) ==
    LET f == Overload(sym, Kind(l), Kind(r))
    IN  CASE f = "point+=" -> PointPlusEq(l, r)
          [] f = "point-=" -> PointMinusEq(l, r)
          [] f = "delta+=" -> DeltaPlusEq(l, r)
          [] f = "delta-=" -> DeltaMinusEq(l, r)
          [] f = "delta*=" -> DeltaTimesEq(l, OperandArg)
          [] f = "delta/=" -> DeltaDivEq(l, OperandArg)
          [] f = "point-point" -> PointMinusPoint(l, r)
          [] f = "point+delta" -> PointPlusDelta(l, r)
          [] f = "point-delta" -> PointMinusDelta(l, r)
          [] f = "delta+delta" -> DeltaPlusDelta(l, r)
          [] f = "delta-delta" -> DeltaMinusDelta(l, r)
          [] f = "scalar*delta" -> ScalarTimesDelta(OperandArg, r)
          [] f = "delta*scalar" -> DeltaTimesScalar(l, OperandArg)
          [] f = "delta/scalar" -> DeltaDivScalar(l, OperandArg)
          [] OTHER ->
               /\ Step
               /\ Rejected(Kind(l) \o sym \o Kind(r), OperandName(l), OperandName(r),
                           IF "scalar" \in {Kind(l), Kind(r)} THEN OperandArg ELSE NoArg)

\* x.size():  constexpr static std::size_t size() requires vector_valued
SizeCall(x) ==
    /\ Step
    /\ IF vector_valued
       THEN /\ obj' = obj
            /\ call' = [op |-> "size", ok |-> TRUE, lhs |-> x, rhs |-> "-",
                        a |-> NoArg, ret |-> "prvalue", result |-> ZeroElement,
                        value |-> size]
       ELSE Rejected("size", x, "-", NoArg)

\* x[i]:  operator[]( const std::size_t i ) requires vector_valued, with
\* i < ndim (the caller's obligation)
IndexRead(x, i) ==
    /\ Step
    /\ vector_valued => i \in Index
    /\ IF vector_valued
       THEN /\ obj' = obj
            /\ call' = [op |-> "[]", ok |-> TRUE, lhs |-> x, rhs |-> "-",
                        a |-> [type |-> "size_t", val |-> i],
                        ret |-> x, result |-> ZeroElement, value |-> obj[x][i]]
       ELSE Rejected("[]", x, "-", [type |-> "size_t", val |-> i])

\* ------------------------------------------------------------------------
\* vector_space.h: vector_space_base and its free operators
\* ------------------------------------------------------------------------
\* the tokens of the template parameter lists of vector_space_base and of
\* the alias scalar_vector_base, a parameter being two tokens
vector_space_base_params ==
    <<"std::size_t", "ndim", ",", "typename", "derived_t", ",", "numeric", "num_t">>
scalar_vector_base_params ==
    <<"typename", "derived_t", "numeric", "num_t">>

\* template-parameter-list: parameter { "," parameter }
RECURSIVE ParameterListParses(_)
ParameterListParses(toks) ==
    IF Len(toks) < 2 THEN FALSE
    ELSE IF Len(toks) = 2 THEN toks[1] # "," /\ toks[2] # ","
    ELSE /\ toks[1] # "," /\ toks[2] # ","
         /\ toks[3] = ","
         /\ ParameterListParses(SubSeq(toks, 4, Len(toks)))

\* the names in scope in a member function body of vector_space_base, its
\* own parameters and locals apart
VectorScope ==
    {"ndim", "derived_t", "num_t", "vector_valued", "element_type",
     "value_type", "element", "size"}

\* the names each member operator body refers to
VectorBodyNames(op) ==
    CASE op = "vector+=" -> {"vector_valued", "ndim", "elems", "element", "derived_t"}
      [] op = "vector-=" -> {"vector_valued", "N", "elems", "element", "derived_t"}
      [] op = "vector*=" -> {"vector_valued", "elems", "element", "derived_t"}
      [] op = "vector/=" -> {"num_t", "derived_t"}
      [] op = "-vector"  -> {"vector_valued", "derived_t", "element"}

VectorMemberOperators == {"vector+=", "vector-=", "vector*=", "vector/=", "-vector"}

\* the operator symbols vector_space.h declares, as members or free functions
VectorDeclaredOperators == {"+=", "-=", "*=", "/=", "-", "+", "*", "/"}

\* a translation unit that includes vector_space.h compiles: the template
\* parameter lists parse and every name used in a body is declared
vector_space_h_compiles ==
    /\ ParameterListParses(vector_space_base_params)
    /\ ParameterListParses(scalar_vector_base_params)
    /\ \A op \in VectorMemberOperators : VectorBodyNames(op) \subseteq VectorScope

\* the vectors of the client (v0, v1 of the header's example): they have
\* the storage of the deltas d and e, v0 is mutable
VectorNames == DeltaNames
MutableVectors == MutableDeltas

\* the bodies of the member operators, the storage being `element`
RECURSIVE vector_plus_eq_loop(_, _, _, _)
vector_plus_eq_loop(h, this, other, i) ==
    IF i < ndim
    THEN vector_plus_eq_loop([h EXCEPT ![this][i] = FAdd(h[this][i], h[other][i])],
                             this, other, i + 1)
    ELSE h

\* vector_space_base::operator+=( const derived_t& other )
vector_plus_eq(h, this, other) ==
    IF vector_valued
    THEN vector_plus_eq_loop(h, this, other, 0)
    ELSE [h EXCEPT ![this] = FAdd(h[this], h[other])]

RECURSIVE vector_minus_eq_loop(_, _, _, _)
vector_minus_eq_loop(h, this, other, i) ==
    IF i < ndim
    THEN vector_minus_eq_loop([h EXCEPT ![this][i] = FSub(h[this][i], h[other][i])],
                              this, other, i + 1)
    ELSE h

\* vector_space_base::operator-=( const derived_t& other )
vector_minus_eq(h, this, other) ==
    IF vector_valued
    THEN vector_minus_eq_loop(h, this, other, 0)
    ELSE [h EXCEPT ![this] = FSub(h[this], h[other])]

RECURSIVE vector_times_eq_loop(_, _, _, _)
vector_times_eq_loop(h, this, a, i) ==
    IF i < ndim
    THEN vector_times_eq_loop([h EXCEPT ![this][i] = FMul(h[this][i], a)],
                              this, a, i + 1)
    ELSE h

\* vector_space_base::operator*=( const std::convertible_to<num_t> auto a )
vector_times_eq(h, this, a) ==
    IF vector_valued
    THEN vector_times_eq_loop(h, this, a, 0)
    ELSE [h EXCEPT ![this] = FMul(h[this], a)]

\* vector_space_base::operator/=:  return ... *=(num_t(1)/a);
vector_div_eq(h, this, a) == vector_times_eq(h, this, FDiv(One, a))

RECURSIVE vector_negate_loop(_, _, _)
vector_negate_loop(h, result, i) ==
    IF i < ndim
    THEN vector_negate_loop([h EXCEPT ![result][i] = FNeg(h[result][i])],
                            result, i + 1)
    ELSE h

\* vector_space_base::operator-()
vector_negate(h, this) ==
    IF vector_valued
    THEN vector_negate_loop(WithLocal(h, "result", h[this]), "result", 0)
    ELSE WithLocal(h, "result", FNeg(h[this]))

\* v = v+v, v = v-v, v = a*v, v = v*a, v = v/a
vector_plus_vector(h, lhs, rhs) ==
    vector_plus_eq(WithLocal(h, "result", h[lhs]), "result", rhs)
vector_minus_vector(h, lhs, rhs) ==
    vector_minus_eq(WithLocal(h, "result", h[lhs]), "result", rhs)
scalar_times_vector(h, a, rhs) ==
    vector_times_eq(WithLocal(h, "result", h[rhs]), "result", a)
vector_times_scalar(h, lhs, a) == scalar_times_vector(h, a, lhs)
vector_div_scalar(h, lhs, a) ==
    vector_div_eq(WithLocal(h, "result", h[lhs]), "result", a)

\* an expression on vectors: it is evaluated if the header compiles and
\* the argument type satisfies std::convertible_to<num_t>
VectorPlusEq(x, y) ==
    /\ Step
    /\ IF vector_space_h_compiles
       THEN ReturnsThis("vector+=", vector_plus_eq(obj, x, y), x, y, NoArg)
       ELSE Rejected("vector+=", x, y, NoArg)

VectorMinusEq(x, y) ==
    /\ Step
    /\ IF vector_space_h_compiles
       THEN ReturnsThis("vector-=", vector_minus_eq(obj, x, y), x, y, NoArg)
       ELSE Rejected("vector-=", x, y, NoArg)

VectorTimesEq(x, a) ==
    /\ Step
    /\ IF vector_space_h_compiles /\ convertible_to_num_t(a.type)
       THEN ReturnsThis("vector*=", vector_times_eq(obj, x, a.val), x, "-", a)
       ELSE Rejected("vector*=", x, "-", a)

VectorDivEq(x, a) ==
    /\ Step
    /\ IF vector_space_h_compiles /\ convertible_to_num_t(a.type)
       THEN ReturnsThis("vector/=", vector_div_eq(obj, x, a.val), x, "-", a)
       ELSE Rejected("vector/=", x, "-", a)

VectorNegate(x) ==
    /\ Step
    /\ IF vector_space_h_compiles
       THEN ReturnsLocal("-vector", vector_negate(obj, x), "result", x, "-", NoArg)
       ELSE Rejected("-vector", x, "-", NoArg)

\* l + r, l - r, a * r, l * a, l / a on vectors
VectorBinary(op, l, r, a) ==
    /\ Step
    /\ IF vector_space_h_compiles /\ (a = NoArg \/ convertible_to_num_t(a.type))
       THEN LET h == CASE op = "vector+vector" -> vector_plus_vector(obj, l, r)
                       [] op = "vector-vector" -> vector_minus_vector(obj, l, r)
                       [] op = "scalar*vector" -> scalar_times_vector(obj, a.val, r)
                       [] op = "vector*scalar" -> vector_times_scalar(obj, l, a.val)
                       [] op = "vector/scalar" -> vector_div_scalar(obj, l, a.val)
            IN  ReturnsLocal(op, h, "result", l, r, a)
       ELSE Rejected(op, l, r, a)

\* ostream << x, x a vector: the header declares no operator<<, no
\* overload accepts the operands
VectorStreamInsert(x) ==
    /\ Step
    /\ ~(vector_space_h_compiles /\ "<<" \in VectorDeclaredOperators)
    /\ Rejected("ostream<<vector", "-", x, NoArg)

Init ==
    /\ ndim \in 0..MaxDim
    /\ \E sp \in {0, 1}, sd \in {0, 1} :
          obj = [k \in Names |-> InitElement(k, IF k \in PointNames THEN sp ELSE sd)]
    /\ call = NoCall
    /\ nops = 0

Next ==
    \/ \E x \in MutablePoints, y \in DeltaNames : PointPlusEq(x, y)
    \/ \E x \in MutablePoints, y \in DeltaNames : PointMinusEq(x, y)
    \/ \E y \in DeltaNames : ChainedPointMinusEq(y)
    \/ \E x \in MutableDeltas, y \in DeltaNames : DeltaPlusEq(x, y)
    \/ \E x \in MutableDeltas, y \in DeltaNames : DeltaMinusEq(x, y)
    \/ \E x \in MutableDeltas, a \in ScalarArgs : DeltaTimesEq(x, a)
    \/ \E x \in MutableDeltas, a \in ScalarArgs : DeltaDivEq(x, a)
    \/ \E x \in MutableDeltas : DeltaNegate(x)
    \/ \E l \in PointNames : \E r \in PointNames \ {l} : PointMinusPoint(l, r)
    \/ \E l \in MutablePoints, r \in DeltaNames : PointPlusDelta(l, r)
    \/ \E l \in MutablePoints, r \in DeltaNames : PointMinusDelta(l, r)
    \/ \E l \in MutableDeltas, r \in DeltaNames : DeltaPlusDelta(l, r)
    \/ \E l \in MutableDeltas, r \in DeltaNames : DeltaMinusDelta(l, r)
    \/ \E a \in ScalarArgs, r \in MutableDeltas : ScalarTimesDelta(a, r)
    \/ \E l \in MutableDeltas, a \in ScalarArgs : DeltaTimesScalar(l, a)
    \/ \E l \in MutableDeltas, a \in ScalarArgs : DeltaDivScalar(l, a)

Spec == Init /\ [][Next]_vars

\* a client that tries every operator symbol on operands of which one is a
\* point, and the accessors
LeftOperands == {"p", "d", ScalarOperand}
RightOperands == {"q", "e", ScalarOperand}

OperandNext ==
    \/ \E sym \in OperatorSymbols, l \in LeftOperands, r \in RightOperands :
          /\ "point" \in {Kind(l), Kind(r)}
          /\ BinaryExpression(sym, l, r)
    \/ \E x \in MutablePoints \cup MutableDeltas : SizeCall(x)
    \/ \E x \in MutablePoints \cup MutableDeltas, i \in 0..(MaxDim - 1) : IndexRead(x, i)

OperandSpec == Init /\ [][OperandNext]_vars

\* a client of vector_space.h
VectorNext ==
    \/ \E x \in MutableVectors, y \in VectorNames : VectorPlusEq(x, y)
    \/ \E x \in MutableVectors, y \in VectorNames : VectorMinusEq(x, y)
    \/ \E x \in MutableVectors, a \in ScalarArgs : VectorTimesEq(x, a)
    \/ \E x \in MutableVectors, a \in ScalarArgs : VectorDivEq(x, a)
    \/ \E x \in MutableVectors : VectorNegate(x)
    \/ \E op \in {"vector+vector", "vector-vector"}, l \in MutableVectors, r \in VectorNames :
          VectorBinary(op, l, r, NoArg)
    \/ \E a \in ScalarArgs, r \in MutableVectors : VectorBinary("scalar*vector", "-", r, a)
    \/ \E op \in {"vector*scalar", "vector/scalar"}, l \in MutableVectors, a \in ScalarArgs :
          VectorBinary(op, l, "-", a)
    \/ \E x \in VectorNames : VectorStreamInsert(x)

VectorSpec == Init /\ [][VectorNext]_vars

\* a client that only translates the point p in place
TranslateNext ==
    \/ \E y \in DeltaNames : PointPlusEq("p", y)
    \/ \E y \in DeltaNames : PointMinusEq("p", y)

TranslateSpec == Init /\ [][TranslateNext]_vars

TypeOK ==
    /\ ndim \in 0..MaxDim
    /\ \A k \in Names : obj[k] \in element_type
    /\ call.result \in element_type
    /\ call.value \in Float \cup (0..MaxDim)
    /\ nops \in 0..MaxOps
\* ------------------------------------------------------------------------
\* Properties
\* ------------------------------------------------------------------------
\* the step evaluates a well-formed expression of one of the operators ops
OpStep(ops) == nops' = nops + 1 /\ call'.ok /\ call'.op \in ops

\* F applied index by index (to the single scalar when ndim = 0)
Elementwise(F(_, _), x, y) ==
    IF vector_valued THEN [i \in Index |-> F(x[i], y[i])] ELSE F(x, y)

\* every object other than k is as it was
OthersUnchanged(k) == \A n \in Names \ {k} : obj'[n] = obj[n]

\* C1: after x += d (x a point or a delta) every index i of x holds
\* old x[i] + d[i], after x -= d it holds old x[i] - d[i]; for ndim = 0 the
\* single scalar becomes old x + d (old x - d).
C1_InPlaceTranslationElementwise ==
    [][ /\ OpStep({"point+=", "delta+="}) =>
              obj'[call'.lhs] = Elementwise(FAdd, obj[call'.lhs], obj[call'.rhs])
        /\ OpStep({"point-=", "delta-="}) =>
              obj'[call'.lhs] = Elementwise(FSub, obj[call'.lhs], obj[call'.rhs])
      ]_vars

\* a vector-valued point has been translated in place, to distinct coordinates
C1_Witness ==
    /\ call.op = "point+=" /\ call.ok
    /\ ndim >= 2
    /\ obj[call.lhs] = call.result
    /\ call.result[0] # call.result[1]

\* C2: point += delta and point -= delta change the storage of the receiver
\* only (the delta operand keeps its elements) and return the receiver
\* itself, so that -= applied to the value of (p += d1) acts on p.
C2_PointTranslationFrame ==
    [][ /\ OpStep({"point+=", "point-="}) =>
              /\ OthersUnchanged(call'.lhs)
              /\ obj'[call'.rhs] = obj[call'.rhs]
              /\ call'.ret = call'.lhs
              /\ call'.lhs \in PointNames
        /\ (OpStep({"(point)-="}) /\ call.op \in {"point+=", "point-="}) =>
              /\ call'.lhs = call.lhs
              /\ obj'[call.lhs] = Elementwise(FSub, obj[call.lhs], obj[call'.rhs])
              /\ OthersUnchanged(call.lhs)
      ]_vars

\* -= has been applied to the value of an in-place translation and has
\* changed the translated point
C2_Witness ==
    /\ call.op = "(point)-=" /\ call.ok
    /\ call.lhs \in PointNames
    /\ call.ret = call.lhs
    /\ nops = 2
    /\ obj[call.lhs] = call.result
    /\ \E s \in {0, 1} : obj[call.lhs] # InitElement(call.lhs, s)

\* C3: lhs - rhs for two points returns a delta whose element i is
\* lhs[i] - rhs[i] (the single scalar lhs - rhs for ndim = 0) and leaves both
\* points unchanged.
C3_PointMinusPoint ==
    [][ OpStep({"point-point"}) =>
              /\ call'.result = Elementwise(FSub, obj[call'.lhs], obj[call'.rhs])
              /\ call'.result \in element_type
              /\ call'.ret = "prvalue"
              /\ obj' = obj
      ]_vars

\* two vector-valued points have been subtracted, with distinct differences
C3_Witness ==
    /\ call.op = "point-point" /\ call.ok
    /\ ndim >= 2
    /\ call.result = Elementwise(FSub, obj[call.lhs], obj[call.rhs])
    /\ call.result[0] # call.result[1]
    /\ call.result[0] # 0
\* every element (the single scalar when ndim = 0) multiplied by a
Scaled(x, a) == IF vector_valued THEN [i \in Index |-> FMul(x[i], a)] ELSE FMul(x, a)

\* every element (the single scalar when ndim = 0) negated
Negated(x) == IF vector_valued THEN [i \in Index |-> FNeg(x[i])] ELSE FNeg(x)

\* C4 as claimed: delta *= a is accepted for an a of any type convertible
\* to the scalar type (the integer 5 included) and multiplies every element
\* by a.
C4_AnyConvertibleTypeAccepted ==
    [][ (nops' = nops + 1 /\ call'.op = "delta*="
             /\ call'.a.type \in {"float", "double", "long double", "int"}) =>
              /\ call'.ok
              /\ obj'[call'.lhs] = Scaled(obj[call'.lhs], call'.a.val)
      ]_vars

\* C4 amended: delta *= a is accepted for an a of a floating-point type
\* only (float, double, long double; the integer 5 is rejected and nothing
\* is evaluated); an accepted call multiplies every element (the single
\* scalar for ndim = 0) by a and changes nothing else, so delta{3} *= 5.0
\* yields element 15.
C4_TimesEqFloatingPointOnly ==
    [][ (nops' = nops + 1 /\ call'.op = "delta*=") =>
          IF call'.a.type \in {"float", "double", "long double"}
          THEN /\ call'.ok
               /\ obj'[call'.lhs] = Scaled(obj[call'.lhs], call'.a.val)
               /\ OthersUnchanged(call'.lhs)
               /\ call'.ret = call'.lhs
               /\ (ndim = 0 /\ obj[call'.lhs] = 3 * One /\ call'.a.val = 5 * One) =>
                      obj'[call'.lhs] = 15 * One
          ELSE ~call'.ok /\ obj' = obj
      ]_vars

\* the scalar delta 3 has been multiplied by the double 5 and holds 15
C4_Witness ==
    /\ call.op = "delta*=" /\ call.ok
    /\ ndim = 0 /\ nops = 1
    /\ call.a = [type |-> "double", val |-> 5 * One]
    /\ obj[call.lhs] = 15 * One

\* C5: the state of d after d /= a is its state after d *= (1/a): every
\* element is multiplied by the one reciprocal 1/a.
C5_DivEqIsTimesReciprocal ==
    [][ OpStep({"delta/="}) =>
              /\ obj'[call'.lhs] = Scaled(obj[call'.lhs], FDiv(One, call'.a.val))
              /\ obj' = Globals(delta_times_eq(obj, call'.lhs, FDiv(One, call'.a.val)))
      ]_vars

\* the scalar delta d, holding d - e after d -= e, has been divided by 5,
\* and multiplying by the reciprocal has given a value that dividing the
\* element would not have given
C5_Witness ==
    /\ call.op = "delta/=" /\ call.ok
    /\ ndim = 0 /\ nops = 2
    /\ call.a.val = 5 * One
    /\ \E s \in {0, 1} :
          LET old == FSub(InitElement(call.lhs, s), InitElement("e", s))
          IN  /\ obj[call.lhs] = FMul(old, FDiv(One, call.a.val))
              /\ obj[call.lhs] # FDiv(old, call.a.val)

\* C6: -d returns a new delta whose element i is -d[i] (the negated scalar
\* for ndim = 0); d has the same elements after the call as before it.
C6_NegationReturnsNewDelta ==
    [][ OpStep({"-delta"}) =>
              /\ call'.result = Negated(obj[call'.lhs])
              /\ call'.ret = "prvalue"
              /\ obj' = obj
      ]_vars

\* a vector-valued delta with non-zero elements has been negated
C6_Witness ==
    /\ call.op = "-delta" /\ call.ok
    /\ ndim >= 2
    /\ call.result = Negated(obj[call.lhs])
    /\ \A i \in Index : obj[call.lhs][i] # 0 /\ IsFinite(obj[call.lhs][i])

\* the in-place operator F applied to a copy of l with operand r
OnCopy(F(_, _, _), l, r) ==
    F([copy |-> obj[l], operand |-> obj[r]], "copy", "operand").copy

\* the in-place operator F applied to a copy of l with the scalar a
OnCopyScalar(F(_, _, _), l, a) == F([copy |-> obj[l]], "copy", a).copy

\* C7: p + d, p - d, d1 + d2, d1 - d2 and d / a equal a copy of the left
\* operand after +=, -=, +=, -=, /= with the right operand, a * d equals a
\* copy of d after *= a, and both operands are unchanged.
C7_FreeOperatorsAreInPlaceOnCopy ==
    [][ /\ OpStep({"point+delta"}) =>
              call'.result = OnCopy(point_plus_eq, call'.lhs, call'.rhs)
        /\ OpStep({"point-delta"}) =>
              call'.result = OnCopy(point_minus_eq, call'.lhs, call'.rhs)
        /\ OpStep({"delta+delta"}) =>
              call'.result = OnCopy(delta_plus_eq, call'.lhs, call'.rhs)
        /\ OpStep({"delta-delta"}) =>
              call'.result = OnCopy(delta_minus_eq, call'.lhs, call'.rhs)
        /\ OpStep({"delta/scalar"}) =>
              call'.result = OnCopyScalar(delta_div_eq, call'.lhs, call'.a.val)
        /\ OpStep({"scalar*delta"}) =>
              call'.result = OnCopyScalar(delta_times_eq, call'.rhs, call'.a.val)
        /\ OpStep({"point+delta", "point-delta", "delta+delta", "delta-delta",
                   "delta/scalar", "scalar*delta"}) =>
              obj' = obj /\ call'.ret = "prvalue"
      ]_vars

\* a vector-valued point plus a delta has been evaluated and differs from
\* the point
C7_Witness ==
    /\ call.op = "point+delta" /\ call.ok
    /\ ndim >= 2
    /\ call.result = OnCopy(point_plus_eq, call.lhs, call.rhs)
    /\ \A i \in Index : call.result[i] # obj[call.lhs][i]
\* the slots of a storage and the scalar held in slot i
Slots == IF vector_valued THEN Index ELSE {0}
At(x, i) == IF vector_valued THEN x[i] ELSE x
Max(x, y) == IF x > y THEN x ELSE y

\* the last expression evaluated is a well-formed use of the operator op
Evaluated(op) == call.op = op /\ call.ok

\* C8: for every delta D and scalar a, a * D and D * a are the same delta,
\* element by element (an element that is NaN on one side is NaN on the
\* other).
C8_ScalarTimesDeltaCommutes ==
    /\ Evaluated("delta*scalar") =>
          /\ call.result = scalar_times_delta(obj, call.a.val, call.lhs).result
          /\ call.result = Scaled(obj[call.lhs], call.a.val)
    /\ Evaluated("scalar*delta") =>
          /\ call.result = delta_times_scalar(obj, call.rhs, call.a.val).result
          /\ call.result = Scaled(obj[call.rhs], call.a.val)

\* D * a has been evaluated on a vector-valued delta and has scaled it
C8_Witness ==
    /\ Evaluated("delta*scalar")
    /\ ndim >= 2
    /\ call.result = scalar_times_delta(obj, call.a.val, call.lhs).result
    /\ \A i \in Index : IsFinite(call.result[i]) /\ call.result[i] # obj[call.lhs][i]

\* the value of the last expression with the delta m subtracted from it
\* (added to it) by the free operator
ResultMinus(m) == point_minus_delta(WithLocal(obj, "value", call.result), "value", m).result
ResultPlus(m) == point_plus_delta(WithLocal(obj, "value", call.result), "value", m).result

\* r, if finite, differs from x by at most 2 * epsilon * max(|x|, |y|),
\* epsilon = 2^(1 - Precision) being the machine epsilon
WithinRounding(r, x, y) ==
    IsFinite(r) => Abs(r - x) * Pow2(Precision - 2) <= Max(Abs(x), Abs(y))

\* C9 as claimed: (P + D) - D == P and (P - D) + D == P at every index.
C9_RoundTripExact ==
    /\ Evaluated("point+delta") => ResultMinus(call.rhs) = obj[call.lhs]
    /\ Evaluated("point-delta") => ResultPlus(call.rhs) = obj[call.lhs]

\* C9 amended: for finite P and D, at every index where neither operation
\* overflows, (P + D) - D and (P - D) + D differ from P[i] by at most
\* 2 * epsilon * max(|P[i]|, |D[i]|), and equal P[i] when the first
\* operation is exact (P[i] + D[i], resp. P[i] - D[i], needs no rounding).
C9_RoundTripWithinRounding ==
    (Evaluated("point+delta") \/ Evaluated("point-delta")) =>
        LET back == IF call.op = "point+delta"
                    THEN ResultMinus(call.rhs) ELSE ResultPlus(call.rhs)
        IN  \A i \in Slots :
              LET x == At(obj[call.lhs], i)
                  y == At(obj[call.rhs], i)
                  exact == IF call.op = "point+delta" THEN x + y ELSE x - y
                  first == At(call.result, i)
              IN  (IsFinite(x) /\ IsFinite(y)) =>
                    /\ IsFinite(first) => WithinRounding(At(back, i), x, y)
                    /\ first = exact => At(back, i) = x

\* p + d has been evaluated where the sum is rounded: (p + d) - d is finite
\* and is not p
C9_Witness ==
    /\ Evaluated("point+delta")
    /\ \E i \in Slots :
          LET x == At(obj[call.lhs], i)
              y == At(obj[call.rhs], i)
          IN  /\ IsFinite(x) /\ IsFinite(y)
              /\ At(call.result, i) = FAdd(x, y)
              /\ FAdd(x, y) # x + y
              /\ IsFinite(At(ResultMinus(call.rhs), i))
              /\ At(ResultMinus(call.rhs), i) # x

\* P1 + D, D the value of the last expression P2 - P1
DifferenceAddedBack ==
    point_plus_delta(WithLocal(obj, "D", call.result), call.rhs, "D").result

\* C10 as claimed: if P2 - P1 == D then P1 + D == P2 at every index.
C10_SubtractThenAddExact ==
    Evaluated("point-point") => DifferenceAddedBack = obj[call.lhs]

\* C10 amended: for finite P1 and P2 and D == P2 - P1, at every index where
\* neither operation overflows, P1 + D differs from P2[i] by at most
\* 2 * epsilon * max(|P1[i]|, |P2[i]|), and equals P2[i] when the
\* subtraction is exact.
C10_SubtractThenAddWithinRounding ==
    Evaluated("point-point") =>
        LET back == DifferenceAddedBack
        IN  \A i \in Slots :
              LET x2 == At(obj[call.lhs], i)
                  x1 == At(obj[call.rhs], i)
                  D == At(call.result, i)
              IN  (IsFinite(x1) /\ IsFinite(x2)) =>
                    /\ IsFinite(D) => WithinRounding(At(back, i), x2, x1)
                    /\ D = x2 - x1 => At(back, i) = x2

\* two points have been subtracted where the difference is rounded: adding
\* it back to the right operand gives a finite value that is not the left one
C10_Witness ==
    /\ Evaluated("point-point")
    /\ \E i \in Slots :
          LET x2 == At(obj[call.lhs], i)
              x1 == At(obj[call.rhs], i)
          IN  /\ IsFinite(x1) /\ IsFinite(x2)
              /\ At(call.result, i) = FSub(x2, x1)
              /\ FSub(x2, x1) # x2 - x1
              /\ IsFinite(At(DifferenceAddedBack, i))
              /\ At(DifferenceAddedBack, i) # x2
\* v is finite and in the normal range of the format: the significand has
\* all its Precision bits, the rounding error is relative
Normal(v) == IsFinite(v) /\ Abs(v) >= Pow2(Precision - 1)

\* (D / a) * a, D / a being the value of the last expression
QuotientTimes(a) ==
    delta_times_scalar(WithLocal(obj, "quotient", call.result), "quotient", a).result

\* C11 as claimed: for every delta D and scalar a # 0, (D / a) * a == D at
\* every index.
C11_DivTimesExact ==
    (Evaluated("delta/scalar") /\ call.a.val # 0) =>
        QuotientTimes(call.a.val) = obj[call.lhs]

\* C11 amended: for every finite delta D and finite scalar a # 0, at every
\* index where 1/a, D[i] * (1/a) and the final product are in the normal
\* range (no overflow, no underflow), (D / a) * a differs from D[i] by at
\* most 2 * epsilon * |D[i]|; it is D[i] where 1/a and D[i] * (1/a) need no
\* rounding, and 0 where D[i] is 0 and 1/a is finite.
C11_DivTimesWithinRounding ==
    (Evaluated("delta/scalar") /\ call.a.val # 0 /\ IsFinite(call.a.val)) =>
        LET a == call.a.val
            r == FDiv(One, a)
            back == QuotientTimes(a)
        IN  \A i \in Slots :
              LET x == At(obj[call.lhs], i)
                  q == At(call.result, i)
                  b == At(back, i)
              IN  IsFinite(x) =>
                    /\ (Normal(r) /\ Normal(q) /\ Normal(b)) =>
                           Abs(b - x) * Pow2(Precision - 2) <= Abs(x)
                    /\ (r * a = One * One /\ q * One = x * r) => b = x
                    /\ (x = 0 /\ IsFinite(r)) => b = 0

\* d / a has been evaluated with 1/a, the quotient and the product back all
\* in the normal range, and the product is not the element of d
C11_Witness ==
    /\ Evaluated("delta/scalar")
    /\ call.a.val # 0
    /\ \E i \in Slots :
          LET x == At(obj[call.lhs], i)
              b == At(QuotientTimes(call.a.val), i)
          IN  /\ IsFinite(x)
              /\ Normal(FDiv(One, call.a.val))
              /\ At(call.result, i) = FMul(x, FDiv(One, call.a.val))
              /\ Normal(At(call.result, i))
              /\ Normal(b)
              /\ b # x
\* the operand combinations the header leaves out
AbsentCombinations ==
    {"point+point", "point*scalar", "scalar*point", "point/scalar", "delta-point"}

\* C12: point+point, point*scalar, scalar*point, point/scalar and
\* delta-point are not callable (nothing is evaluated); an arithmetic
\* operator expression with a point operand is well-formed only as
\* point+delta, point-delta, point-point, point += delta or point -= delta,
\* and its value is then point[i] + delta[i], point[i] - delta[i] or
\* point[i] - point[i] at every index: never a sum of two points, never a
\* scaled point.
C12_PointOperandCombinations ==
    [][ (nops' = nops + 1 /\ call'.op \notin {"size", "[]"}) =>
          /\ call'.op \in AbsentCombinations => (~call'.ok /\ obj' = obj)
          /\ (call'.ok /\ (call'.lhs \in PointNames \/ call'.rhs \in PointNames)) =>
                /\ call'.op \in {"point+delta", "point-delta", "point-point",
                                 "point+=", "point-="}
                /\ call'.lhs \in PointNames
                /\ call'.rhs \in (IF call'.op = "point-point"
                                  THEN PointNames ELSE DeltaNames)
                /\ call'.a = NoArg
                /\ call'.result =
                      IF call'.op \in {"point+delta", "point+="}
                      THEN Elementwise(FAdd, obj[call'.lhs], obj[call'.rhs])
                      ELSE Elementwise(FSub, obj[call'.lhs], obj[call'.rhs])
      ]_vars

\* after a translation of p, the sum of the two vector-valued points p and q
\* has been tried and rejected
C12_Witness ==
    /\ call.op = "point+point" /\ ~call.ok
    /\ call.lhs = "p" /\ call.rhs = "q"
    /\ ndim >= 1 /\ nops = 2
    /\ \A s \in {0, 1} : obj["p"] # InitElement("p", s)

\* C13: for ndim >= 1, size() of a point or delta returns ndim, the number
\* of elements stored; for ndim = 0 neither size() nor [i] is callable.
C13_SizeAndIndexAvailability ==
    [][ nops' = nops + 1 =>
          /\ call'.op = "size" =>
                /\ obj' = obj
                /\ IF ndim >= 1
                   THEN /\ call'.ok
                        /\ call'.value = ndim
                        /\ call'.value = Cardinality(DOMAIN obj[call'.lhs])
                   ELSE ~call'.ok
          /\ call'.op = "[]" =>
                /\ obj' = obj
                /\ ndim = 0 => ~call'.ok
      ]_vars

\* size() has been called on a 2-dimensional object and has returned 2
C13_Witness ==
    /\ call.op = "size" /\ call.ok
    /\ ndim = 2
    /\ call.value = 2
    /\ DOMAIN obj[call.lhs] = {0, 1}
\* C14 as claimed: for a vector type with ndim >= 1, v += w and v -= w set
\* every index i of v to old v[i] + w[i] (old v[i] - w[i]) and leave w
\* unchanged; v *= a, v /= a and -v act on every element as they do on a
\* delta.
C14_VectorArithmeticAsDelta ==
    [][ (nops' = nops + 1 /\ ndim >= 1) =>
          /\ call'.op = "vector+=" =>
                /\ call'.ok
                /\ obj'[call'.lhs] = Elementwise(FAdd, obj[call'.lhs], obj[call'.rhs])
                /\ OthersUnchanged(call'.lhs)
          /\ call'.op = "vector-=" =>
                /\ call'.ok
                /\ obj'[call'.lhs] = Elementwise(FSub, obj[call'.lhs], obj[call'.rhs])
                /\ OthersUnchanged(call'.lhs)
          /\ (call'.op = "vector*=" /\ floating_point(call'.a.type)) =>
                /\ call'.ok
                /\ obj' = Globals(delta_times_eq(obj, call'.lhs, call'.a.val))
          /\ (call'.op = "vector/=" /\ floating_point(call'.a.type)) =>
                /\ call'.ok
                /\ obj' = Globals(delta_div_eq(obj, call'.lhs, call'.a.val))
          /\ call'.op = "-vector" =>
                /\ call'.ok
                /\ call'.result = delta_negate(obj, call'.lhs).result
                /\ obj' = obj
      ]_vars

\* the text insertion writes for the storage x: its elements in index
\* order, one space between consecutive elements, nothing after the last
RECURSIVE SpaceSeparated(_, _)
SpaceSeparated(x, i) ==
    IF i >= ndim THEN <<>>
    ELSE IF i = ndim - 1 THEN <<[token |-> "element", val |-> x[i]]>>
    ELSE <<[token |-> "element", val |-> x[i]], [token |-> "space", val |-> 0]>>
             \o SpaceSeparated(x, i + 1)

\* C15 as claimed: stream insertion of a vector-space element of dimension
\* n writes its n elements in index order, exactly one space between
\* consecutive elements and no separator after the last.
C15_StreamInsertionFormat ==
    [][ (nops' = nops + 1 /\ call'.op = "ostream<<vector" /\ ndim >= 1) =>
          /\ call'.ok
          /\ call'.value = SpaceSeparated(obj[call'.rhs], 0)
          /\ obj' = obj
      ]_vars
\* the step is x += x or x -= x on a delta: the operand is the receiver
SelfStep(op) == OpStep({op}) /\ call'.rhs = call'.lhs

\* C16 as claimed: after d += d every element holds twice its old value and
\* after d -= d every element is zero, for every ndim.
C16_SelfAssignExact ==
    [][ /\ SelfStep("delta+=") =>
              \A i \in Slots :
                 At(obj'[call'.lhs], i) = FMul(2 * One, At(obj[call'.lhs], i))
        /\ SelfStep("delta-=") =>
              \A i \in Slots : At(obj'[call'.lhs], i) = 0
      ]_vars

\* C16 amended: after d += d every element holds twice its old value, as
\* the floating-point sum x + x gives it (infinite on overflow, NaN for
\* NaN); after d -= d every element that was finite is zero and every
\* element that was infinite or NaN is NaN; element i depends on the old
\* element i only, and no other object changes.
C16_SelfAssignElementwise ==
    [][ /\ SelfStep("delta+=") =>
              /\ \A i \in Slots :
                    LET x == At(obj[call'.lhs], i)
                    IN  /\ At(obj'[call'.lhs], i) = FMul(2 * One, x)
                        /\ At(obj'[call'.lhs], i) = FAdd(x, x)
              /\ OthersUnchanged(call'.lhs)
        /\ SelfStep("delta-=") =>
              /\ \A i \in Slots :
                    LET x == At(obj[call'.lhs], i)
                    IN  At(obj'[call'.lhs], i) = IF IsFinite(x) THEN 0 ELSE NaN
              /\ OthersUnchanged(call'.lhs)
      ]_vars

\* d -= d has been evaluated on a vector-valued delta holding a finite and
\* an infinite element: one element is zero, another is NaN
C16_Witness ==
    /\ call.op = "delta-=" /\ call.ok
    /\ call.rhs = call.lhs
    /\ ndim >= 2
    /\ \E i \in Index, j \in Index :
          obj[call.lhs][i] = 0 /\ IsNaN(obj[call.lhs][j])
\* the steps of a sequence of translations of p, and the sequences of n steps
TranslationSteps == {"point+=", "point-="} \X DeltaNames
Paths(n) == [1..n -> TranslationSteps]

\* p as constructed: p and q are built from the same one of the two
\* starting values, and q is never written
InitialP ==
    LET s == CHOOSE s \in {0, 1} : obj["q"] = InitElement("q", s)
    IN  InitElement("p", s)

\* the storage after the steps path[k..] applied to h
RECURSIVE Replay(_, _, _)
Replay(h, path, k) ==
    IF k > Len(path) THEN h
    ELSE Replay(IF path[k][1] = "point+=" THEN point_plus_eq(h, "p", path[k][2])
                ELSE point_minus_eq(h, "p", path[k][2]),
                path, k + 1)

Replayed(path) == Replay([obj EXCEPT !["p"] = InitialP], path, 1)["p"]

\* the signed sum of the d_k at slot i over the first k steps of path
RECURSIVE SignedSum(_, _, _)
SignedSum(path, i, k) ==
    IF k = 0 THEN 0
    ELSE SignedSum(path, i, k - 1)
            + (IF path[k][1] = "point+=" THEN At(obj[path[k][2]], i)
               ELSE -At(obj[path[k][2]], i))

\* the arithmetic of the steps of path is exact: after every step the sum
\* is a value of the scalar type, nothing is rounded and nothing overflows
Exact(path) ==
    \A k \in 1..Len(path), i \in Slots :
       Representable(At(InitialP, i) + SignedSum(path, i, k))

\* path is a sequence of steps that leads to the current state
LeadsHere(path) ==
    /\ Len(path) = nops
    /\ Replayed(path) = obj["p"]
    /\ nops > 0 => (call.op = path[nops][1] /\ call.rhs = path[nops][2])

\* the two sequences apply the same steps, in any order
SameSteps(path, other) ==
    \A st \in TranslationSteps :
       Cardinality({k \in DOMAIN path : path[k] = st})
          = Cardinality({k \in DOMAIN other : other[k] = st})

\* C17: after a sequence of steps p += d_k / p -= d_k whose additions are
\* all exact, every index i of p holds the initial p[i] plus the signed sum
\* of the d_k[i]; every order of the same steps whose additions are exact
\* gives the same p; a step writes each index once, in ndim iterations; the
\* number of elements of p does not change.
C17_TranslationsSumExactly ==
    /\ \E path \in Paths(nops) : LeadsHere(path)
    /\ \A path \in Paths(nops) :
          (LeadsHere(path) /\ Exact(path)) =>
             /\ \A i \in Slots : At(obj["p"], i) = At(InitialP, i) + SignedSum(path, i, nops)
             /\ \A other \in Paths(nops) :
                   (SameSteps(path, other) /\ Exact(other)) =>
                       Replayed(other) = obj["p"]
    /\ vector_valued =>
          /\ DOMAIN obj["p"] = DOMAIN InitialP
          /\ Cardinality(DOMAIN obj["p"]) = ndim
          /\ Len(point_translate_loop_indices(0)) = ndim
          /\ \A i \in Index :
                Cardinality({k \in 1..ndim : point_translate_loop_indices(0)[k] = i}) = 1
    /\ ~vector_valued => obj["p"] \in Float

\* p, vector-valued, has been translated by two different deltas, exactly,
\* and the same two steps in the other order are exact too
C17_Witness ==
    /\ nops = 2 /\ ndim >= 2
    /\ obj["p"] # InitialP
    /\ \E path \in Paths(2) :
          /\ LeadsHere(path) /\ Exact(path)
          /\ path[1][2] # path[2][2]
          /\ Exact(<<path[2], path[1]>>)
          /\ Replayed(<<path[2], path[1]>>) = obj["p"]
=============================================================================
